---- MODULE Spec2Model ----
(***************************************************************************)
(* A model of src/editor.js: the "Phase 2" editor core (lines 14-324), the *)
(* editor with the token cache.  The "Phase 1" editor that the file keeps  *)
(* below it (lines 334-502) is the earlier editor without a cache; it has  *)
(* its own state object and is not modelled.  A text is a sequence of      *)
(* characters (one-character strings), a line is a text with               *)
(* no "\n" in it, and an HTML string is the sequence of the pieces whose   *)
(* concatenation it is (one piece per escaped character, one per tag).     *)
(* Indices that the code computes (start, endOld, endNew, first, last, the *)
(* regex's lastIndex) are kept 0-based as in the code; At and Slice        *)
(* translate to TLA+'s 1-based sequences.                                  *)
(***************************************************************************)
EXTENDS Integers, Sequences, FiniteSets, TLC

VARIABLES
  text,            \* state.text
  tokens,          \* state.tokens: per line, the line's token HTML
  selectionStart,  \* state.selectionStart
  selectionEnd,    \* state.selectionEnd
  scrollTop,       \* state.scrollTop
  viewportHeight,  \* state.viewportHeight
  phantomHeight,   \* contentPhantom.style.height / gutterPhantom.style.height, in px
  transformY,      \* translateY of contentViewport / gutterViewport, in px
  gutterLines,     \* children of gutterViewport: the line numbers shown
  contentLines,    \* children of contentViewport: each child's innerHTML
  status,          \* statusEl.textContent: the two numbers in it
  probe            \* the arguments and the result of a function applied on its own

vars == <<text, tokens, selectionStart, selectionEnd, scrollTop, viewportHeight,
          phantomHeight, transformY, gutterLines, contentLines, status, probe>>

(***************************************************************************)
(* Bounds of the model.                                                    *)
(***************************************************************************)
MaxLineLen == 4        \* longest line handed to tokenizeLine on its own
MaxDiffLen == 3        \* longest line sequence handed to findChangedRange on its own
MaxLines == 2          \* most lines of a text typed into the textarea
MaxScrollLine == 11    \* scroll events reach this many lines down
MaxViewportLines == 1  \* the scroll host is up to this many lines high
MaxViewLines == 20     \* most lines of a document whose visible range is computed on its own
MaxViewScrollLine == 10 \* ... scrolled up to this many lines down
MaxViewHeightLines == 2 \* ... in a viewport up to this many lines high
MaxSubPx == 1          \* ... both up to this many pixels off a line boundary, either way

(***************************************************************************)
(* Constants of the program.                                               *)
(***************************************************************************)
LINE_HEIGHT == 28
RENDER_BUFFER == 8

INITIAL_TEXT ==
  <<"{", "\n">> \o
  <<" ", " ", "\"", "m", "e", "s", "s", "a", "g", "e", "\"", ":", " ", "\"", "W", "e", "l", "c", "o", "m", "e", " ", "t", "o", " ", "P", "h", "a", "s", "e", " ", "2", "!", "\"", ",", "\n">> \o
  <<" ", " ", "\"", "n", "u", "m", "b", "e", "r", "\"", ":", " ", "4", "2", ",", "\n">> \o
  <<" ", " ", "\"", "f", "l", "a", "g", "\"", ":", " ", "t", "r", "u", "e", ",", "\n">> \o
  <<" ", " ", "\"", "n", "i", "l", "\"", ":", " ", "n", "u", "l", "l", ",", "\n">> \o
  <<" ", " ", "\"", "a", "r", "r", "\"", ":", " ", "[", "\n">> \o
  <<" ", " ", " ", " ", "\"", "o", "n", "e", "\"", ",", "\n">> \o
  <<" ", " ", " ", " ", "\"", "t", "w", "o", "\"", ",", "\n">> \o
  <<" ", " ", " ", " ", "\"", "t", "h", "r", "e", "e", "\"", "\n">> \o
  <<" ", " ", "]", "\n">> \o
  <<"}", "\n">>

(***************************************************************************)
(* Sequences, 0-based as JavaScript's arrays and strings.                  *)
(***************************************************************************)
Min(a, b) == IF a <= b THEN a ELSE b
Max(a, b) == IF a >= b THEN a ELSE b

\* s[i]
At(s, i) == s[i + 1]

\* s.slice(from, to) for 0 <= from: the elements at from .. to - 1
Slice(s, from, to) == SubSeq(s, from + 1, Min(to, Len(s)))

\* the sequence f, with its elements computed once
Seq1(f) == f \o << >>

RECURSIVE Flatten(_)
Flatten(ss) == IF ss = << >> THEN << >> ELSE Head(ss) \o Flatten(Tail(ss))

(***************************************************************************)
(* Character classes of the regular expressions.                           *)
(***************************************************************************)
Digits == {"0", "1", "2", "3", "4", "5", "6", "7", "8", "9"}

Letters ==
  {"a", "b", "c", "d", "e", "f", "g", "h", "i", "j", "k", "l", "m",
   "n", "o", "p", "q", "r", "s", "t", "u", "v", "w", "x", "y", "z",
   "A", "B", "C", "D", "E", "F", "G", "H", "I", "J", "K", "L", "M",
   "N", "O", "P", "Q", "R", "S", "T", "U", "V", "W", "X", "Y", "Z"}

\* \w, the characters between which \b finds no boundary
WordChars == Letters \cup Digits \cup {"_"}

\* [{}\[\]:,]
Punctuation == {"{", "}", "[", "]", ":", ","}

\* \s, as far as the model's characters go
Whitespace == {" ", "\t", "\r", "\f"}

\* what "." does not match
LineTerminators == {"\n", "\r"}

\* true|false|null, in the order of the alternation
Keywords == << <<"t", "r", "u", "e">>, <<"f", "a", "l", "s", "e">>, <<"n", "u", "l", "l">> >>

(***************************************************************************)
(* tokenRegex.  Each Match operator takes the 0-based position p at which  *)
(* an alternative is tried and returns the position after the match, or    *)
(* -1 when the alternative does not match at p.                            *)
(***************************************************************************)
NoMatch == -1

\* (?:\\.|[^"\\])*" : the rest of a string after its opening quote.  The two
\* alternatives of the group start with different characters and neither
\* matches a quote, so giving back iterations never finds another match.
RECURSIVE StringRest(_, _)
StringRest(line, i) ==
  IF i >= Len(line) THEN NoMatch
  ELSE IF At(line, i) = "\"" THEN i + 1
  ELSE IF At(line, i) = "\\"
       THEN IF i + 1 < Len(line) /\ At(line, i + 1) \notin LineTerminators
            THEN StringRest(line, i + 2)
            ELSE NoMatch
       ELSE StringRest(line, i + 1)

\* group 1: "(?:\\.|[^"\\])*"
MatchString(line, p) ==
  IF At(line, p) = "\"" THEN StringRest(line, p + 1) ELSE NoMatch

\* \d* from i: the position of the first non-digit at or after i
RECURSIVE DigitsEnd(_, _)
DigitsEnd(line, i) ==
  IF i < Len(line) /\ At(line, i) \in Digits THEN DigitsEnd(line, i + 1) ELSE i

\* group 2: -?\d+(?:\.\d+)?(?:[eE][+-]?\d+)?
MatchNumber(line, p) ==
  LET p1 == IF At(line, p) = "-" THEN p + 1 ELSE p
      d  == DigitsEnd(line, p1)
      f  == IF d < Len(line) /\ At(line, d) = "." /\ DigitsEnd(line, d + 1) > d + 1
            THEN DigitsEnd(line, d + 1) ELSE d
      s  == IF f + 1 < Len(line) /\ At(line, f + 1) \in {"+", "-"} THEN f + 2 ELSE f + 1
      e  == IF f < Len(line) /\ At(line, f) \in {"e", "E"} /\ DigitsEnd(line, s) > s
            THEN DigitsEnd(line, s) ELSE f
  IN  IF d = p1 THEN NoMatch ELSE e

\* \b between positions p - 1 and p
WordBoundary(line, p) ==
  LET before == p >= 1 /\ p - 1 < Len(line) /\ At(line, p - 1) \in WordChars
      after  == p < Len(line) /\ At(line, p) \in WordChars
  IN  before # after

\* the word w, literally, at position p
LiteralAt(line, p, w) ==
  /\ p + Len(w) <= Len(line)
  /\ \A k \in 0..(Len(w) - 1) : At(line, p + k) = At(w, k)

\* group 3: \b(true|false|null)\b
MatchKeyword(line, p) ==
  LET hits == {k \in 1..Len(Keywords) :
                 /\ WordBoundary(line, p)
                 /\ LiteralAt(line, p, Keywords[k])
                 /\ WordBoundary(line, p + Len(Keywords[k]))}
  IN  IF hits = {} THEN NoMatch
      ELSE p + Len(Keywords[CHOOSE k \in hits : \A j \in hits : k <= j])

\* group 4: ([{}\[\]:,])
MatchPunctuation(line, p) ==
  IF At(line, p) \in Punctuation THEN p + 1 ELSE NoMatch

\* The whole expression tried at position p < line.length: the first
\* alternative that matches wins.  group is 0 when none does.
MatchAt(line, p) ==
  LET g1 == MatchString(line, p)
      g2 == MatchNumber(line, p)
      g3 == MatchKeyword(line, p)
      g4 == MatchPunctuation(line, p)
  IN  IF g1 # NoMatch THEN [group |-> 1, index |-> p, end |-> g1]
      ELSE IF g2 # NoMatch THEN [group |-> 2, index |-> p, end |-> g2]
      ELSE IF g3 # NoMatch THEN [group |-> 3, index |-> p, end |-> g3]
      ELSE IF g4 # NoMatch THEN [group |-> 4, index |-> p, end |-> g4]
      ELSE [group |-> 0, index |-> p, end |-> p]

\* tokenRegex.exec(line) with tokenRegex.lastIndex = from: the leftmost match
\* at or after from; group 0 stands for null.
RECURSIVE Exec(_, _)
Exec(line, from) ==
  IF from >= Len(line) THEN [group |-> 0, index |-> from, end |-> from]
  ELSE LET m == MatchAt(line, from)
       IN  IF m.group # 0 THEN m ELSE Exec(line, from + 1)

(***************************************************************************)
(* tokenizeLine.                                                           *)
(***************************************************************************)
Token(type, txt) == [type |-> type, text |-> txt]

\* the token pushed for a match m of line (the if / else-if chain on m[1..4];
\* every group that takes part in a match is a non-empty string)
MatchToken(line, m) ==
  LET txt == Slice(line, m.index, m.end)
  IN  IF m.group = 1 THEN Token("string", txt)
      ELSE IF m.group = 2 THEN Token("number", txt)
      ELSE IF m.group = 3
        THEN Token(IF txt = <<"n", "u", "l", "l">> THEN "null" ELSE "boolean", txt)
      ELSE Token("punctuation", txt)

\* PlainBetween with the test m.index > last + 1: a lone character between two
\* matches, or after the last, is lost
PlainBetweenSkipsOne(line, last, upto) ==
  IF upto > last + 1 THEN << Token("plain", Slice(line, last, upto)) >> ELSE << >>

\* PlainBetween without the test m.index > last: a plain token is pushed before
\* every match and at the end, empty or not
PlainBetweenAlways(line, last, upto) == << Token("plain", Slice(line, last, upto)) >>

\* the text between the previous match and this one, or after the last match
PlainBetween(line, last, upto) ==
  IF upto > last THEN << Token("plain", Slice(line, last, upto)) >> ELSE << >>

\* the while loop over tokenRegex.exec, then the plain tail; last is the
\* lastIndex left by the previous match
RECURSIVE ScanTokens(_, _, _)
ScanTokens(line, last, acc) ==
  LET m == Exec(line, last)
  IN  IF m.group = 0
        THEN acc \o PlainBetween(line, last, Len(line))
        ELSE ScanTokens(line, m.end,
                        acc \o PlainBetween(line, last, m.index) \o << MatchToken(line, m) >>)

\* /^\s*$/.test(t)
IsBlank(t) == \A k \in 1..Len(t) : t[k] \in Whitespace

\* SkipBlank with the inner while left out: only the very next token is looked at
SkipBlankNone(toks, j) == j

\* the inner while: from j (0-based), skip the plain whitespace tokens
RECURSIVE SkipBlank(_, _)
SkipBlank(toks, j) ==
  IF j < Len(toks) /\ At(toks, j).type = "plain" /\ IsBlank(At(toks, j).text)
  THEN SkipBlank(toks, j + 1) ELSE j

\* the post-process loop: a string followed, after optional blanks, by ":"
\* becomes a key.  The loop runs over i < tokens.length - 1; the types it
\* rewrites (string to key) are not types it reads at j.
MarkKeys(toks) ==
  Seq1([i \in 1..Len(toks) |->
     LET j == SkipBlank(toks, i)   \* 0-based i - 1, so j starts at 0-based i
     IN  IF /\ i - 1 < Len(toks) - 1
            /\ toks[i].type = "string"
            /\ j < Len(toks)
            /\ At(toks, j).type = "punctuation"
            /\ At(toks, j).text = <<":">>
         THEN Token("key", toks[i].text)
         ELSE toks[i]])

\* tokenRegex.lastIndex is set to 0 on entry, so the scan starts at 0
tokenizeLine(line) == MarkKeys(ScanTokens(line, 0, << >>))

(***************************************************************************)
(* escapeHtml and tokensToHtml.  The three replacements run in the order   *)
(* &, <, >; the text "&amp;" that the first inserts holds no < or >, so    *)
(* the result is the per-character replacement.                            *)
(***************************************************************************)
EscapeChar(c) ==
  IF c = "&" THEN "&amp;" ELSE IF c = "<" THEN "&lt;" ELSE IF c = ">" THEN "&gt;" ELSE c

escapeHtml(s) == Seq1([k \in 1..Len(s) |-> EscapeChar(s[k])])

TokenHtml(t) ==
  IF t.type = "plain" THEN escapeHtml(t.text)
  ELSE << "<span class=\"token " \o t.type \o "\">" >> \o escapeHtml(t.text) \o << "</span>" >>

tokensToHtml(toks) == Flatten(Seq1([k \in 1..Len(toks) |-> TokenHtml(toks[k])]))

\* the cache entry of a line
LineHtml(line) == tokensToHtml(tokenizeLine(line))

(***************************************************************************)
(* state.lines, state.totalLines, state.docHeightPx.                       *)
(***************************************************************************)
\* Split without the empty piece after a final newline, and with no piece at
\* all for the empty text
SplitDropsTrailingEmpty(t) ==
  LET newlines == {i \in 1..Len(t) : t[i] = "\n"}
      Cut(k) == IF k = 0 THEN 0
                ELSE IF k > Cardinality(newlines) THEN Len(t) + 1
                ELSE CHOOSE i \in newlines : Cardinality({j \in newlines : j < i}) = k - 1
      pieces == IF Len(t) = 0 \/ t[Len(t)] = "\n"
                THEN Cardinality(newlines) ELSE Cardinality(newlines) + 1
  IN  Seq1([k \in 1..pieces |-> SubSeq(t, Cut(k - 1) + 1, Cut(k) - 1)])

\* t.split("\n"): the pieces between the newlines, the empty piece after a
\* final newline included; never fewer than one piece
Split(t) ==
  LET newlines == {i \in 1..Len(t) : t[i] = "\n"}
      \* the position of the k-th newline; 0 before the text, Len(t) + 1 after it
      Cut(k) == IF k = 0 THEN 0
                ELSE IF k > Cardinality(newlines) THEN Len(t) + 1
                ELSE CHOOSE i \in newlines : Cardinality({j \in newlines : j < i}) = k - 1
  IN  Seq1([k \in 1..(Cardinality(newlines) + 1) |-> SubSeq(t, Cut(k - 1) + 1, Cut(k) - 1)])

\* the text whose lines are ls (the inverse of Split on non-empty ls)
RECURSIVE JoinLines(_)
JoinLines(ls) ==
  IF Len(ls) = 0 THEN << >>
  ELSE IF Len(ls) = 1 THEN ls[1]
  ELSE ls[1] \o <<"\n">> \o JoinLines(Tail(ls))

lines == Split(text)
totalLines == Len(lines)
docHeightPx == totalLines * LINE_HEIGHT

(***************************************************************************)
(* findChangedRange.                                                       *)
(***************************************************************************)
\* the result null
Null == [null |-> TRUE]
IsNull(r) == "null" \in DOMAIN r

\* CommonPrefix with the first line never compared
RECURSIVE CommonPrefixSkipsFirst(_, _, _)
CommonPrefixSkipsFirst(oldLines, newLines, start) ==
  IF /\ start < Min(Len(oldLines), Len(newLines))
     /\ (start = 0 \/ At(oldLines, start) = At(newLines, start))
  THEN CommonPrefixSkipsFirst(oldLines, newLines, start + 1)
  ELSE start

\* the first while loop: the length of the common prefix
RECURSIVE CommonPrefix(_, _, _)
CommonPrefix(oldLines, newLines, start) ==
  IF start < Min(Len(oldLines), Len(newLines)) /\ At(oldLines, start) = At(newLines, start)
  THEN CommonPrefix(oldLines, newLines, start + 1)
  ELSE start

\* TrimSuffix without endNew--: only the old end walks back
RECURSIVE TrimSuffixOldOnly(_, _, _, _, _)
TrimSuffixOldOnly(oldLines, newLines, start, endOld, endNew) ==
  IF endOld >= start /\ endNew >= start /\ At(oldLines, endOld) = At(newLines, endNew)
  THEN TrimSuffixOldOnly(oldLines, newLines, start, endOld - 1, endNew)
  ELSE [start |-> start, endOld |-> endOld, endNew |-> endNew]

\* TrimSuffix with the ends tested against 0 instead of start: the suffix may
\* walk back into the common prefix
RECURSIVE TrimSuffixIntoPrefix(_, _, _, _, _)
TrimSuffixIntoPrefix(oldLines, newLines, start, endOld, endNew) ==
  IF endOld >= 0 /\ endNew >= 0 /\ At(oldLines, endOld) = At(newLines, endNew)
  THEN TrimSuffixIntoPrefix(oldLines, newLines, start, endOld - 1, endNew - 1)
  ELSE [start |-> start, endOld |-> endOld, endNew |-> endNew]

\* the second while loop: both ends walk back over the common suffix
RECURSIVE TrimSuffix(_, _, _, _, _)
TrimSuffix(oldLines, newLines, start, endOld, endNew) ==
  IF endOld >= start /\ endNew >= start /\ At(oldLines, endOld) = At(newLines, endNew)
  THEN TrimSuffix(oldLines, newLines, start, endOld - 1, endNew - 1)
  ELSE [start |-> start, endOld |-> endOld, endNew |-> endNew]

\* findChangedRange with the identity test start === oldLines.length alone
findChangedRangeOldLengthOnly(oldLines, newLines) ==
  LET start == CommonPrefix(oldLines, newLines, 0)
  IN  IF start = Len(oldLines)
      THEN Null
      ELSE TrimSuffix(oldLines, newLines, start, Len(oldLines) - 1, Len(newLines) - 1)

findChangedRange(oldLines, newLines) ==
  LET start == CommonPrefix(oldLines, newLines, 0)
  IN  IF start = Len(oldLines) /\ start = Len(newLines)
      THEN Null
      ELSE TrimSuffix(oldLines, newLines, start, Len(oldLines) - 1, Len(newLines) - 1)

(***************************************************************************)
(* The token cache.                                                        *)
(***************************************************************************)
\* arr.splice(start, deleteCount, ...items) for start >= 0: the array after it
Splice(arr, start, deleteCount, items) ==
  LET from == Min(start, Len(arr))
      del  == Min(Max(deleteCount, 0), Len(arr) - from)
  IN  Slice(arr, 0, from) \o items \o Slice(arr, from + del, Len(arr))

\* retokenizeRange: state.tokens after it
retokenizeRange(toks, newLines, start, endNew) ==
  LET changedLines == Slice(newLines, start, endNew + 1)
      newTokens == Seq1([k \in 1..Len(changedLines) |-> LineHtml(changedLines[k])])
  IN  Splice(toks, start, endNew - start + 1, newTokens)

\* FixLength without the truncation
FixLengthAppendOnly(toks, newLines) ==
  IF Len(toks) < Len(newLines)
    THEN toks \o Seq1([k \in 1..(Len(newLines) - Len(toks)) |-> LineHtml(newLines[Len(toks) + k])])
  ELSE toks

\* the length fix-up of syncFromInput: truncate, or append the missing lines
FixLength(toks, newLines) ==
  IF Len(toks) > Len(newLines) THEN Slice(toks, 0, Len(newLines))
  ELSE IF Len(toks) < Len(newLines)
    THEN toks \o Seq1([k \in 1..(Len(newLines) - Len(toks)) |-> LineHtml(newLines[Len(toks) + k])])
  ELSE toks

\* SyncTokens emptying the cache when nothing has changed
SyncTokensResetsOnNoChange(toks, oldLines, newLines) ==
  LET changed == findChangedRange(oldLines, newLines)
  IN  IF IsNull(changed) THEN << >>
      ELSE FixLength(retokenizeRange(toks, newLines, changed.start, changed.endNew), newLines)

\* state.tokens after syncFromInput has read newText
SyncTokens(toks, oldLines, newLines) ==
  LET changed == findChangedRange(oldLines, newLines)
  IN  IF IsNull(changed) THEN toks
      ELSE FixLength(retokenizeRange(toks, newLines, changed.start, changed.endNew), newLines)

\* the indices i of newLines for which syncFromInput calls tokenizeLine(newLines[i]),
\* in the order of the calls: those of retokenizeRange's slice, then those of
\* the append loop of the length fix-up
TokenizedIndices(toks, oldLines, newLines) ==
  LET changed == findChangedRange(oldLines, newLines)
  IN  IF IsNull(changed) THEN << >>
      ELSE LET sliced == Len(Slice(newLines, changed.start, changed.endNew + 1))
               inRange == Seq1([k \in 1..sliced |-> changed.start + k - 1])
               \* state.tokens.length after the splice: one entry per index of inRange
               spliced == Len(Splice(toks, changed.start,
                                     changed.endNew - changed.start + 1, inRange))
           IN  inRange \o Seq1([k \in 1..(Len(newLines) - spliced) |-> spliced + k - 1])

\* CacheRead failing outside the array
CacheReadChecked(toks, i) ==
  IF i >= 0 /\ i < Len(toks)
  THEN [outcome |-> "value", value |-> At(toks, i)]
  ELSE [outcome |-> "OutOfRange", value |-> << >>]

\* state.tokens[i] || "": what renderSlice gets when it reads the cache at i.
\* An index outside the array reads undefined, which || turns into "".
CacheRead(toks, i) ==
  IF i >= 0 /\ i < Len(toks) /\ At(toks, i) # << >>
  THEN [outcome |-> "value", value |-> At(toks, i)]
  ELSE [outcome |-> "value", value |-> << >>]

(***************************************************************************)
(* Virtualization.                                                         *)
(***************************************************************************)
\* Math.ceil(a / b) for a >= 0, b > 0
CeilDiv(a, b) == (a + b - 1) \div b

\* computeVisibleRange with the buffer counted once in visibleCount
computeVisibleRangeOneBuffer(top, height, total) ==
  LET first == Max(0, (top \div LINE_HEIGHT) - RENDER_BUFFER)
      visibleCount == CeilDiv(height, LINE_HEIGHT) + RENDER_BUFFER
      last == Min(total - 1, first + visibleCount - 1)
  IN  [first |-> first, last |-> last]

\* computeVisibleRange with last not clamped to the document
computeVisibleRangeUnclamped(top, height, total) ==
  LET first == Max(0, (top \div LINE_HEIGHT) - RENDER_BUFFER)
      visibleCount == CeilDiv(height, LINE_HEIGHT) + 2 * RENDER_BUFFER
      last == first + visibleCount - 1
  IN  [first |-> first, last |-> last]

\* computeVisibleRange, of state.scrollTop, state.viewportHeight and state.totalLines
computeVisibleRange(top, height, total) ==
  LET first == Max(0, (top \div LINE_HEIGHT) - RENDER_BUFFER)
      visibleCount == CeilDiv(height, LINE_HEIGHT) + 2 * RENDER_BUFFER
      last == Min(total - 1, first + visibleCount - 1)
  IN  [first |-> first, last |-> last]

\* renderSlice: the transform it sets and the children it builds, one gutter
\* number i + 1 and one content line per i in first .. last
renderSlice(toks, top, height, total) ==
  LET r == computeVisibleRange(top, height, total)
      n == IF r.last >= r.first THEN r.last - r.first + 1 ELSE 0
  IN  [transformY   |-> r.first * LINE_HEIGHT,
       gutterLines  |-> Seq1([k \in 1..n |-> r.first + k]),
       contentLines |-> Seq1([k \in 1..n |-> CacheRead(toks, r.first + k - 1).value])]

\* renderAll, run when state.text is newText and state.tokens is toks: what
\* renderPhantoms, renderSlice and the status line leave in the document
renderAll(newText, toks, top, height) ==
  LET total == Len(Split(newText))
      slice == renderSlice(toks, top, height, total)
  IN  [phantomHeight |-> total * LINE_HEIGHT,
       transformY    |-> slice.transformY,
       gutterLines   |-> slice.gutterLines,
       contentLines  |-> slice.contentLines,
       status        |-> [lines |-> total, cached |-> Len(toks)]]

(***************************************************************************)
(* What the environment supplies: the textarea's value and selection, the  *)
(* scroll host's scrollTop and clientHeight.                               *)
(***************************************************************************)
\* the lines typed: a key/value line, the empty line
EditLines == { <<"\"", "a", "\"", ":", " ", "1">>, << >> }

RECURSIVE SeqsUpTo(_, _)
SeqsUpTo(S, n) ==
  IF n = 0 THEN { << >> }
  ELSE LET shorter == SeqsUpTo(S, n - 1)
       IN  shorter \cup {Append(q, x) : q \in {r \in shorter : Len(r) = n - 1}, x \in S}

\* hiddenInput.value: texts of 1 .. MaxLines lines
InputValues == {JoinLines(ls) : ls \in SeqsUpTo(EditLines, MaxLines) \ { << >> }}

\* hiddenInput.selectionStart / selectionEnd: a caret at either end of the value
Carets(value) == {0, Len(value)}

\* scrollHost.scrollTop
ScrollTops == {q * LINE_HEIGHT : q \in 0..MaxScrollLine}

\* scrollHost.clientHeight
ViewportHeights == {q * LINE_HEIGHT : q \in 0..MaxViewportLines}

NoProbe == [fn |-> "none"]

(***************************************************************************)
(* The editor holding the text t with a cache built from it (line 147), a  *)
(* caret at the end (lines 131-132), scrolled to top, in a viewport of the *)
(* given height, and rendered (renderAll).                                 *)
(***************************************************************************)
\* state.lines.map((l) => tokensToHtml(tokenizeLine(l)))
TokenizeAll(ls) == Seq1([k \in 1..Len(ls) |-> LineHtml(ls[k])])

EditorState(t, top, height) ==
  \E toks \in {TokenizeAll(Split(t))} :
    \E dom \in {renderAll(t, toks, top, height)} :
      /\ text = t
      /\ tokens = toks
      /\ selectionStart = Len(t)
      /\ selectionEnd = Len(t)
      /\ scrollTop = top
      /\ viewportHeight = height
      /\ phantomHeight = dom.phantomHeight
      /\ transformY = dom.transformY
      /\ gutterLines = dom.gutterLines
      /\ contentLines = dom.contentLines
      /\ status = dom.status

\* the editor after its construction: lines 125-161 and the initial
\* renderAll() of line 309, with clientHeight measured as height
EditorInit(height) == EditorState(INITIAL_TEXT, 0, height)

Init == \E height \in ViewportHeights : EditorInit(height) /\ probe = NoProbe

(***************************************************************************)
(* The event handlers.                                                     *)
(***************************************************************************)
\* syncFromInput, the listener of input, keyup, mouseup and select
syncFromInput(value, selStart, selEnd) ==
  \E toks \in {SyncTokens(tokens, lines, Split(value))} :
    \E dom \in {renderAll(value, toks, scrollTop, viewportHeight)} :
      /\ text' = value
      /\ selectionStart' = selStart
      /\ selectionEnd' = selEnd
      /\ tokens' = toks
      /\ phantomHeight' = dom.phantomHeight
      /\ transformY' = dom.transformY
      /\ gutterLines' = dom.gutterLines
      /\ contentLines' = dom.contentLines
      /\ status' = dom.status
      /\ UNCHANGED <<scrollTop, viewportHeight>>

\* the scroll listener: it moves the viewports and leaves their children alone
OnScroll(top) ==
  /\ scrollTop' = top
  /\ transformY' = computeVisibleRange(top, viewportHeight, totalLines).first * LINE_HEIGHT
  /\ UNCHANGED <<text, tokens, selectionStart, selectionEnd, viewportHeight,
                 phantomHeight, gutterLines, contentLines, status, probe>>

\* measureViewport, the ResizeObserver's callback
measureViewport(height) ==
  /\ viewportHeight' = height
  /\ UNCHANGED <<text, tokens, selectionStart, selectionEnd, scrollTop,
                 phantomHeight, transformY, gutterLines, contentLines, status, probe>>

\* the scroll host scrolls no further than its content (the phantom) allows
CanScrollTo(top) == top <= Max(0, phantomHeight - viewportHeight)

InputEvent ==
  \E value \in InputValues \cup {text} :
    \E caret \in Carets(value) : syncFromInput(value, caret, caret) /\ UNCHANGED probe

ScrollEvent == \E top \in ScrollTops : CanScrollTo(top) /\ OnScroll(top)

ResizeEvent == \E height \in ViewportHeights : measureViewport(height)

Next == InputEvent \/ ScrollEvent \/ ResizeEvent

Spec == Init /\ [][Next]_vars

editorVars == <<text, tokens, selectionStart, selectionEnd, scrollTop, viewportHeight,
                phantomHeight, transformY, gutterLines, contentLines, status>>

(***************************************************************************)
(* tokenizeLine on its own: every line of up to MaxLineLen characters over *)
(* an alphabet that reaches each alternative of tokenRegex.                *)
(***************************************************************************)
TokChars == {"\"", "\\", "1", "-", ".", "e", ":", " ", "n", "u", "l"}

\* the line "a": 1
KeyLine == <<"\"", "a", "\"", ":", " ", "1">>

TokLines == SeqsUpTo(TokChars, MaxLineLen) \cup {KeyLine}

InitTok ==
  /\ EditorInit(0)
  /\ probe \in {[fn |-> "tokenizeLine", line |-> l, done |-> FALSE, result |-> << >>] :
                  l \in TokLines}

ApplyTokenizeLine ==
  /\ probe.fn = "tokenizeLine" /\ ~probe.done
  /\ probe' = [probe EXCEPT !.done = TRUE, !.result = tokenizeLine(probe.line)]
  /\ UNCHANGED editorVars

SpecTok == InitTok /\ [][ApplyTokenizeLine]_vars

(***************************************************************************)
(* findChangedRange on its own: every pair of line sequences of up to      *)
(* MaxDiffLen lines, the empty sequence included.                          *)
(***************************************************************************)
DiffLines == EditLines \cup { <<"}">> }

DiffSeqs == SeqsUpTo(DiffLines, MaxDiffLen)

InitDiff ==
  /\ EditorInit(0)
  /\ probe \in {[fn |-> "findChangedRange", oldLines |-> o, newLines |-> n,
                 done |-> FALSE, result |-> Null] : o \in DiffSeqs, n \in DiffSeqs}

ApplyFindChangedRange ==
  /\ probe.fn = "findChangedRange" /\ ~probe.done
  /\ probe' = [probe EXCEPT !.done = TRUE,
                            !.result = findChangedRange(probe.oldLines, probe.newLines)]
  /\ UNCHANGED editorVars

SpecDiff == InitDiff /\ [][ApplyFindChangedRange]_vars

(***************************************************************************)
(* computeVisibleRange on its own: documents of 1 .. MaxViewLines lines,   *)
(* scroll positions and viewport heights on and next to line boundaries.   *)
(***************************************************************************)
\* pixel values within MaxSubPx of the first maxLines line boundaries
NearBoundaries(maxLines) ==
  {px \in {q * LINE_HEIGHT + r : q \in 0..maxLines, r \in (0 - MaxSubPx)..MaxSubPx} : px >= 0}

BlankText(n) == Seq1([k \in 1..(n - 1) |-> "\n"])

InitView ==
  /\ \E t \in {BlankText(n) : n \in 1..MaxViewLines} :
       \E top \in NearBoundaries(MaxViewScrollLine), height \in NearBoundaries(MaxViewHeightLines) :
         EditorState(t, top, height)
  /\ probe = [fn |-> "computeVisibleRange", done |-> FALSE, result |-> [first |-> 0, last |-> 0]]

ApplyComputeVisibleRange ==
  /\ probe.fn = "computeVisibleRange" /\ ~probe.done
  /\ probe' = [probe EXCEPT !.done = TRUE,
                            !.result = computeVisibleRange(scrollTop, viewportHeight, totalLines)]
  /\ UNCHANGED editorVars

SpecView == InitView /\ [][ApplyComputeVisibleRange]_vars

(***************************************************************************)
(* The cache read of renderSlice on its own: indices from MaxReadBeyond    *)
(* below the cache to MaxReadBeyond above it.                              *)
(***************************************************************************)
MaxReadBeyond == 4

InitRead ==
  /\ \E t \in InputValues \cup {INITIAL_TEXT} : EditorState(t, 0, 0)
  /\ \E i \in (0 - MaxReadBeyond)..(Len(tokens) - 1 + MaxReadBeyond) :
       probe = [fn |-> "cacheRead", index |-> i, done |-> FALSE,
                result |-> [outcome |-> "none", value |-> << >>]]

ApplyCacheRead ==
  /\ probe.fn = "cacheRead" /\ ~probe.done
  /\ probe' = [probe EXCEPT !.done = TRUE, !.result = CacheRead(tokens, probe.index)]
  /\ UNCHANGED editorVars

SpecRead == InitRead /\ [][ApplyCacheRead]_vars

(***************************************************************************)
(* syncFromInput on its own, run after run from the initial editor: each   *)
(* run leaves in probe what it started from (the lines, the cache, the     *)
(* caret), the range findChangedRange gave it and the lines it tokenized.  *)
(***************************************************************************)
InitSync ==
  /\ \E height \in ViewportHeights : EditorInit(height)
  /\ probe = [fn |-> "syncFromInput", done |-> FALSE, oldLines |-> << >>, before |-> << >>,
              caret |-> 0, changed |-> Null, tokenized |-> << >>]

ApplySyncFromInput ==
  \E value \in InputValues \cup {text} :
    \E caret \in Carets(value) :
      \E oldLines \in {lines} :
        \E changed \in {findChangedRange(oldLines, Split(value))} :
          \E tokenized \in {TokenizedIndices(tokens, oldLines, Split(value))} :
            /\ probe.fn = "syncFromInput"
            /\ syncFromInput(value, caret, caret)
            /\ probe' = [fn |-> "syncFromInput", done |-> TRUE, oldLines |-> oldLines,
                         before |-> tokens, caret |-> selectionStart,
                         changed |-> changed, tokenized |-> tokenized]

SpecSync == InitSync /\ [][ApplySyncFromInput]_vars

(***************************************************************************)
(* The claims.                                                             *)
(***************************************************************************)

\* C1: after any sequence of edits, every cache entry state.tokens[i] equals
\* the token HTML of the current line i tokenized from scratch.
C1_CacheEqualsFullRetokenization ==
  \A i \in 0..(totalLines - 1) :
    i < Len(tokens) /\ At(tokens, i) = LineHtml(At(lines, i))

\* C2: initially and after every syncFromInput, state.tokens.length equals
\* the number of lines of state.text.
C2_CacheLengthIsLineCount == Len(tokens) = totalLines

\* an edit has shrunk the 12-line initial document to one line, and the
\* cache with it
C2_Witness == text # INITIAL_TEXT /\ totalLines = 1 /\ Len(tokens) = 1

ProbeDone(fn) == probe.fn = fn /\ probe.done

\* findChangedRange has returned a range
DiffReturnedRange == ProbeDone("findChangedRange") /\ ~IsNull(probe.result)

\* C3: for a non-null result, the lines before start are equal, the
\* unmatched suffixes have equal length, and oldLines[endOld + k] equals
\* newLines[endNew + k] for every k >= 1 within bounds.
C3_OutsideChangedRangeIdentical ==
  DiffReturnedRange =>
    LET o == probe.oldLines
        n == probe.newLines
        r == probe.result
    IN  /\ \A i \in 0..(r.start - 1) : At(o, i) = At(n, i)
        /\ Len(o) - r.endOld = Len(n) - r.endNew
        /\ \A k \in 1..(Len(o) - 1 - r.endOld) : At(o, r.endOld + k) = At(n, r.endNew + k)

\* a result with a common prefix, a common suffix and a changed line count
C3_Witness ==
  /\ DiffReturnedRange
  /\ probe.result.start > 0
  /\ probe.result.endOld < Len(probe.oldLines) - 1
  /\ probe.result.endOld # probe.result.endNew

\* C4, as claimed: for a non-null result, every index i valid in both
\* sequences and outside [start, max(endOld, endNew)] has
\* oldLines[i] = newLines[i].
C4_OutsideMaxEndPairwiseEqual ==
  DiffReturnedRange =>
    LET o == probe.oldLines
        n == probe.newLines
        r == probe.result
    IN  \A i \in 0..(Min(Len(o), Len(n)) - 1) :
          (i < r.start \/ i > Max(r.endOld, r.endNew)) => At(o, i) = At(n, i)

\* C4, amended: the lines before start are pairwise equal, and an old line
\* at i > max(endOld, endNew) equals the new line at i + (endNew - endOld).
C4_OutsideMaxEndEqualUpToShift ==
  DiffReturnedRange =>
    LET o == probe.oldLines
        n == probe.newLines
        r == probe.result
    IN  \A i \in 0..(Len(o) - 1) :
          /\ i < r.start => At(o, i) = At(n, i)
          /\ i > Max(r.endOld, r.endNew) =>
               /\ i + (r.endNew - r.endOld) < Len(n)
               /\ At(o, i) = At(n, i + (r.endNew - r.endOld))

\* the line count changed and a line after the changed region differs from
\* the new line at the same index
C4_Witness ==
  /\ DiffReturnedRange
  /\ probe.result.endOld # probe.result.endNew
  /\ \E i \in 0..(Min(Len(probe.oldLines), Len(probe.newLines)) - 1) :
       /\ i > Max(probe.result.endOld, probe.result.endNew)
       /\ At(probe.oldLines, i) # At(probe.newLines, i)

\* C5: findChangedRange returns null if and only if the two sequences have
\* the same length and are equal line by line.
C5_NullIffIdentical ==
  ProbeDone("findChangedRange") =>
    (IsNull(probe.result) <=>
       /\ Len(probe.oldLines) = Len(probe.newLines)
       /\ \A i \in 0..(Len(probe.oldLines) - 1) : At(probe.oldLines, i) = At(probe.newLines, i))

\* null for the sequence of one empty line against itself
C5_Witness ==
  /\ ProbeDone("findChangedRange")
  /\ IsNull(probe.result)
  /\ probe.oldLines = << << >> >>
  /\ probe.newLines = << << >> >>

\* the texts of toks, concatenated in order
TokenTexts(toks) == Flatten(Seq1([k \in 1..Len(toks) |-> toks[k].text]))

\* C6: the token texts of tokenizeLine(L), concatenated in order, are L.
C6_TokenTextsReproduceLine ==
  ProbeDone("tokenizeLine") => TokenTexts(probe.result) = probe.line

\* a line with plain text between two matches and after the last match
C6_Witness ==
  /\ ProbeDone("tokenizeLine")
  /\ Len(probe.result) = 4
  /\ probe.result[1].type # "plain"
  /\ probe.result[2].type = "plain"
  /\ probe.result[3].type # "plain"
  /\ probe.result[4].type = "plain"

\* line i's pixel span [i * LINE_HEIGHT, (i + 1) * LINE_HEIGHT) meets the
\* window [scrollTop, scrollTop + viewportHeight)
LineInWindow(i) ==
  i * LINE_HEIGHT < scrollTop + viewportHeight /\ (i + 1) * LINE_HEIGHT > scrollTop

\* C7: every valid line index whose pixel span meets the window lies within
\* the [first, last] that computeVisibleRange returns.
C7_VisibleLinesInRange ==
  ProbeDone("computeVisibleRange") =>
    \A i \in 0..(totalLines - 1) :
      LineInWindow(i) => probe.result.first <= i /\ i <= probe.result.last

\* scrolled past the top buffer to a position off a line boundary, with a
\* line in the window and a range that ends before the document does
C7_Witness ==
  /\ ProbeDone("computeVisibleRange")
  /\ scrollTop > RENDER_BUFFER * LINE_HEIGHT
  /\ scrollTop % LINE_HEIGHT # 0
  /\ \E i \in 0..(totalLines - 1) : LineInWindow(i)
  /\ probe.result.first > 0
  /\ probe.result.last < totalLines - 1

\* C8: for viewportHeight > 0 the range holds the visible lines and
\* RENDER_BUFFER more on each side, clamped to the document:
\* first <= max(0, firstVisible - RENDER_BUFFER) and
\* last >= min(totalLines - 1, lastVisible + RENDER_BUFFER).
C8_BufferOnEachSide ==
  (ProbeDone("computeVisibleRange") /\ viewportHeight > 0) =>
    LET firstVisible == scrollTop \div LINE_HEIGHT
        lastVisible == (scrollTop + viewportHeight - 1) \div LINE_HEIGHT
    IN  /\ probe.result.first <= Max(0, firstVisible - RENDER_BUFFER)
        /\ probe.result.last >= Min(totalLines - 1, lastVisible + RENDER_BUFFER)

\* C9: in every reachable state, computeVisibleRange returns an empty range
\* (first > last) only if totalLines = 0.
C9_RangeEmptyOnlyForEmptyDocument ==
  LET r == computeVisibleRange(scrollTop, viewportHeight, totalLines)
  IN  r.first > r.last => totalLines = 0

\* the cache has been read at an index outside 0 .. length - 1
ReadOutOfRange ==
  ProbeDone("cacheRead") /\ (probe.index < 0 \/ probe.index >= Len(tokens))

\* C10, as claimed: a read at a negative index or one >= the cache length
\* ends in an out-of-range error, not in a value.
C10_OutOfRangeReadFails == ReadOutOfRange => probe.result.outcome = "OutOfRange"

\* C10, amended: such a read does not fail; it yields the empty string in
\* place of the missing entry.
C10_OutOfRangeReadYieldsEmpty ==
  ReadOutOfRange => probe.result.outcome = "value" /\ probe.result.value = << >>

\* the cache has been read one past its last entry
C10_Witness == ReadOutOfRange /\ probe.index = Len(tokens)

\* in toks, the token after toks[i], skipping whitespace-only plain tokens,
\* exists and is the punctuation token ":"
FollowedByColon(toks, i) ==
  \E k \in (i + 1)..Len(toks) :
    /\ toks[k] = Token("punctuation", <<":">>)
    /\ \A q \in (i + 1)..(k - 1) : toks[q].type = "plain" /\ IsBlank(toks[q].text)

\* C11: in the result of tokenizeLine a quoted string is a key if and only if
\* the next token after it, skipping whitespace-only plain tokens, is the
\* punctuation ":"; otherwise it stays a string; no other token changes its
\* kind or text; and "a": 1 gives key, punctuation, plain, number.
C11_KeyIffColonFollows ==
  ProbeDone("tokenizeLine") =>
    LET raw == ScanTokens(probe.line, 0, << >>)
        r == probe.result
    IN  /\ Len(r) = Len(raw)
        /\ \A i \in 1..Len(raw) :
             /\ r[i].text = raw[i].text
             /\ raw[i].type # "key"
             /\ IF raw[i].type = "string"
                  THEN r[i].type = (IF FollowedByColon(raw, i) THEN "key" ELSE "string")
                  ELSE r[i].type = raw[i].type
        /\ probe.line = KeyLine =>
             r = << Token("key", <<"\"", "a", "\"">>), Token("punctuation", <<":">>),
                    Token("plain", <<" ">>), Token("number", <<"1">>) >>

\* "a": 1 has been tokenized and its string is a key
C11_Witness ==
  ProbeDone("tokenizeLine") /\ probe.line = KeyLine /\ probe.result[1].type = "key"

\* the run of syncFromInput just completed had a non-null changed range
SyncChanged == ProbeDone("syncFromInput") /\ ~IsNull(probe.changed)

\* C12: in a run of syncFromInput with a non-null range, the indices of new
\* lines passed to the tokenizer are exactly start .. endNew, each once.
C12_TokenizesExactlyChangedRange ==
  SyncChanged =>
    probe.tokenized = [k \in 1..(probe.changed.endNew - probe.changed.start + 1) |->
                         probe.changed.start + k - 1]

\* C13: the cache update for a non-null range is the splice that replaces the
\* old entries start .. endOld by those of the new lines start .. endNew: the
\* entries before start stay where they are, the new lines' entries follow,
\* and every old entry at j > endOld is found at j + (endNew - endOld).
C13_UpdateIsSpliceOfOldRange ==
  SyncChanged =>
    LET c == probe.changed
        shift == c.endNew - c.endOld
    IN  /\ Len(tokens) = Len(probe.before) + shift
        /\ \A i \in 0..(c.start - 1) : At(tokens, i) = At(probe.before, i)
        /\ \A i \in c.start..c.endNew : At(tokens, i) = LineHtml(At(lines, i))
        /\ \A j \in (c.endOld + 1)..(Len(probe.before) - 1) :
             j + shift < Len(tokens) /\ At(tokens, j + shift) = At(probe.before, j)

\* the run of syncFromInput just completed read a text with the stored lines
SyncUnchanged == ProbeDone("syncFromInput") /\ probe.oldLines = lines

\* C18: a run of syncFromInput whose new text has the stored line sequence
\* gets the no-change result and leaves the cache as it was, entry by entry;
\* the rendering is that of the unchanged cache.
C18_NoChangeLeavesCache ==
  SyncUnchanged =>
    /\ IsNull(probe.changed)
    /\ tokens = probe.before
    /\ probe.tokenized = << >>
    /\ status = [lines |-> Len(probe.oldLines), cached |-> Len(probe.before)]

\* a keyup, mouseup or select that moved the caret and edited nothing
C18_Witness == SyncUnchanged /\ selectionStart # probe.caret /\ Len(tokens) > 1

\* C14: every non-null result is well-formed and tight:
\* 0 <= start <= min(oldLines.length, newLines.length),
\* start - 1 <= endOld <= oldLines.length - 1, start - 1 <= endNew <= newLines.length - 1,
\* start is the shorter length or the lines at start differ, and
\* endOld < start or endNew < start or the lines at endOld and endNew differ.
C14_RangeWellFormedAndTight ==
  DiffReturnedRange =>
    LET o == probe.oldLines
        n == probe.newLines
        r == probe.result
    IN  /\ 0 <= r.start /\ r.start <= Min(Len(o), Len(n))
        /\ r.start - 1 <= r.endOld /\ r.endOld <= Len(o) - 1
        /\ r.start - 1 <= r.endNew /\ r.endNew <= Len(n) - 1
        /\ r.start = Min(Len(o), Len(n)) \/ At(o, r.start) # At(n, r.start)
        /\ r.endOld < r.start \/ r.endNew < r.start \/ At(o, r.endOld) # At(n, r.endNew)

\* a result whose suffix walk stopped at the common prefix although the lines
\* before it are equal: old is a proper prefix of new and ends as new does
C14_Witness ==
  /\ DiffReturnedRange
  /\ probe.result.start = Len(probe.oldLines)
  /\ probe.result.endOld = probe.result.start - 1
  /\ probe.result.endOld >= 0
  /\ At(probe.oldLines, probe.result.endOld) = At(probe.newLines, probe.result.endNew)

\* the indices i of the loop of the latest renderSlice: it reads state.tokens[i]
\* for each line number i + 1 it puts into the gutter
RenderedIndices == [k \in 1..Len(gutterLines) |-> gutterLines[k] - 1]

\* C15: in every render pass, after any interleaving of edits, scrolls and
\* resizes, every index at which the cache is read is a line index of the
\* current document (0 .. totalLines - 1) and lies below state.tokens.length.
C15_RenderReadsWithinDocument ==
  /\ Len(contentLines) = Len(gutterLines)
  /\ \A k \in 1..Len(gutterLines) :
       /\ 0 <= RenderedIndices[k]
       /\ RenderedIndices[k] <= totalLines - 1
       /\ RenderedIndices[k] < Len(tokens)

\* a render of an edited document that the clamp of last has cut off at the
\* document's last line
C15_Witness ==
  /\ text # INITIAL_TEXT
  /\ gutterLines # << >>
  /\ gutterLines[Len(gutterLines)] = totalLines
  /\ gutterLines[1] + CeilDiv(viewportHeight, LINE_HEIGHT) + 2 * RENDER_BUFFER - 1 > totalLines

\* C16: after every handled event, the offset of the materialized slice is
\* LINE_HEIGHT times the index of the first line materialized in it.
C16_OffsetMatchesFirstMaterializedLine ==
  gutterLines # << >> => transformY = LINE_HEIGHT * RenderedIndices[1]

\* C17: after every event, the lines materialized are exactly the range
\* first .. last that computeVisibleRange gives for the current scrollTop,
\* viewportHeight and totalLines.
C17_MaterializedRangeIsCurrent ==
  LET r == computeVisibleRange(scrollTop, viewportHeight, totalLines)
  IN  RenderedIndices = [k \in 1..(IF r.last >= r.first THEN r.last - r.first + 1 ELSE 0) |->
                           r.first + k - 1]

TokenKinds == {"plain", "string", "key", "number", "boolean", "null", "punctuation"}

\* C19: tokenizeLine returns a token sequence for every line: every match of
\* tokenRegex found from any scan position lies at or after that position,
\* inside the line, and consumes at least one character; every token has a
\* kind and a non-empty text; and a line in which nothing matches comes back
\* as one plain token.
C19_TokenizeLineTotal ==
  ProbeDone("tokenizeLine") =>
    /\ \A p \in 0..Len(probe.line) :
         LET m == Exec(probe.line, p)
         IN  m.group # 0 => p <= m.index /\ m.index < m.end /\ m.end <= Len(probe.line)
    /\ \A k \in 1..Len(probe.result) :
         probe.result[k].type \in TokenKinds /\ Len(probe.result[k].text) >= 1
    /\ Exec(probe.line, 0).group = 0 =>
         probe.result = (IF probe.line = << >> THEN << >> ELSE << Token("plain", probe.line) >>)

\* a line with a match and with characters of no lexical category around it
C19_Witness ==
  /\ ProbeDone("tokenizeLine")
  /\ \E k \in 1..Len(probe.result) :
       probe.result[k].type = "plain" /\ ~IsBlank(probe.result[k].text)
  /\ \E k \in 1..Len(probe.result) : probe.result[k].type # "plain"
  /\ probe.result[Len(probe.result)].type = "plain"

\* C20: in every reachable state the document has at least one line, one more
\* than its text has newlines (the empty line after a final newline is kept),
\* and docHeightPx, the height given to the phantoms, is totalLines *
\* LINE_HEIGHT; the empty text has one line, the height LINE_HEIGHT, and its
\* line tokenizes to the empty sequence.
C20_AtLeastOneLine ==
  /\ totalLines >= 1
  /\ totalLines = 1 + Cardinality({k \in 1..Len(text) : text[k] = "\n"})
  /\ (Len(text) > 0 /\ text[Len(text)] = "\n") => lines[totalLines] = << >>
  /\ docHeightPx = totalLines * LINE_HEIGHT
  /\ phantomHeight = docHeightPx
  /\ text = << >> =>
       /\ lines = << << >> >>
       /\ docHeightPx = LINE_HEIGHT
       /\ tokenizeLine(lines[1]) = << >>

\* the document has been emptied
C20_Witness == text = << >> /\ phantomHeight = LINE_HEIGHT

====
